---- MODULE Spec2Model ----
(***************************************************************************)
(* State-machine model of the PSD composite converter:                     *)
(*   src/src/App.tsx               the React component (UI shell, parse    *)
(*                                 dispatch, export pipeline)              *)
(*   src/scripts/smoke-e2e.mjs     lines 138-189: the composite worker     *)
(*                                 (self.onmessage)                        *)
(* Strings that the code inspects character by character (file names, the  *)
(* download name) are sequences of one-character strings.  The scale       *)
(* factor is kept in quarters (the range input has step 0.25), the JPEG    *)
(* quality in twentieths (step 0.05).                                      *)
(***************************************************************************)
EXTENDS Integers, Sequences, FiniteSets, TLC

VARIABLES
    isParsing,      \* App.tsx:20
    error,          \* App.tsx:21
    parsed,         \* App.tsx:22
    format,         \* App.tsx:24
    jpgQuality,     \* App.tsx:25 (twentieths)
    jpgBackground,  \* App.tsx:26
    scale,          \* App.tsx:27 (quarters)
    canUseWorker,   \* App.tsx:33  (workerRef.current # null iff canUseWorker)
    workerOffscreen,\* smoke-e2e.mjs:160, typeof OffscreenCanvas in the worker
    calls,          \* handleFile invocations suspended at an await
    inbox,          \* 'parse' messages posted to the worker, not yet handled
    outbox,         \* worker replies posted, not yet handled by App
    exports,        \* onDownload invocations suspended at toBlob
    downloads,      \* a.click() calls made so far: the download names
    nextBitmap,     \* next ImageBitmap identity
    closed,         \* bitmaps on which close() was called
    delivered,      \* bitmaps that reached the main thread
    handled,        \* requests whose worker handler has run
    replyLog,       \* every reply the worker posted
    nextReq,        \* next handleFile invocation number
    nextExport,     \* next onDownload invocation number
    workerErrors,   \* number of worker.onerror events so far
    history,        \* ghost: selections made and their outcomes
    last            \* ghost: the handler that ran last, with its outcome

vars == <<isParsing, error, parsed, format, jpgQuality, jpgBackground, scale,
          canUseWorker, workerOffscreen, calls, inbox, outbox, exports,
          downloads, nextBitmap, closed, delivered, handled, replyLog,
          nextReq, nextExport, workerErrors, history, last>>

appVars == <<isParsing, error, parsed>>
optVars == <<format, jpgQuality, jpgBackground, scale>>
envVars == <<canUseWorker, workerOffscreen>>
workerVars == <<inbox, handled, replyLog>>
exportVars == <<exports, downloads, nextExport>>
bitmapVars == <<nextBitmap, closed, delivered>>

----------------------------------------------------------------------------
(* Bounds *)

MaxSelections == 2
MaxExports == 1
MaxWorkerErrors == 1

----------------------------------------------------------------------------
(* Values *)

NULL == "<null>"
NoBitmap == 0

PNG == <<"p", "n", "g">>
JPG == <<"j", "p", "g">>
OutputFormat == {PNG, JPG}

ScaleMin == 1
ScaleMax == 8
ScaleStep == 1
ScaleDefault == 4
ScaleChoices == {k \in ScaleMin..ScaleMax : (k - ScaleMin) % ScaleStep = 0}

QualityDefault == 18
QualityChoices == {2, 18}
BackgroundDefault == "#ffffff"
BackgroundChoices == {"#ffffff", "#000000"}

NullParsed ==
    [fileName |-> <<>>, width |-> 0, height |-> 0, bitmap |-> NoBitmap,
     usedWorker |-> FALSE]

MsgBadExtension == "Please select a .psd file."
MsgFailed == "Failed to parse PSD."
MsgWorkerFailed == "Worker failed. Try a different browser or disable extensions."
MsgNoCompositeMain == "No composite image found in this PSD."
MsgNoCompositeWorker == "No composite image found in this PSD (or unsupported PSD features)."
MsgNoOffscreen == "OffscreenCanvas is not supported in this browser."
MsgNoContext == "Canvas 2D context is unavailable in this browser."
MsgNoBlob == "Export failed (toBlob returned null)."
MsgNotReadable == "The requested file could not be read."
MsgBitmapFailed == "The source image could not be decoded."

(* The files the user can choose.  content says what reading and decoding  *)
(* the bytes does: "ok" (composite of width x height), "nocanvas" (no      *)
(* composite data), "malformed" (readPsd throws errMsg), "unreadable"      *)
(* (file.arrayBuffer() rejects).                                           *)
Files ==
    { [name |-> <<"a", ".", "p", "s", "d">>, content |-> "ok",
       width |-> 100, height |-> 100, errMsg |-> ""],
      [name |-> <<"B", ".", "P", "S", "D">>, content |-> "ok",
       width |-> 3, height |-> 1, errMsg |-> ""],
      [name |-> <<"b", ".", "p", "s", "D">>, content |-> "ok",
       width |-> 5, height |-> 7, errMsg |-> ""],
      [name |-> <<"c", ".", "P", "s", "d">>, content |-> "nocanvas",
       width |-> 0, height |-> 0, errMsg |-> ""],
      [name |-> <<"d", ".", "p", "s", "d">>, content |-> "malformed",
       width |-> 0, height |-> 0, errMsg |-> "Invalid PSD file signature"],
      [name |-> <<"e", ".", "p", "s", "d">>, content |-> "unreadable",
       width |-> 0, height |-> 0, errMsg |-> ""],
      [name |-> <<"p", "s", "d">>, content |-> "ok",
       width |-> 100, height |-> 100, errMsg |-> ""],
      [name |-> <<"a", ".", "p", "s", "d", ".", "p", "n", "g">>, content |-> "ok",
       width |-> 3, height |-> 1, errMsg |-> ""] }

----------------------------------------------------------------------------
(* String helpers: String.prototype.toLowerCase, endsWith, the regular     *)
(* expression /\.psd$/i, number formatting in a template literal.          *)

UpperLetters == <<"A", "B", "C", "D", "E", "P", "S">>
LowerLetters == <<"a", "b", "c", "d", "e", "p", "s">>

toLowerChar(c) ==
    IF \E i \in 1..Len(UpperLetters) : UpperLetters[i] = c
    THEN LowerLetters[CHOOSE i \in 1..Len(UpperLetters) : UpperLetters[i] = c]
    ELSE c

toUpperChar(c) ==
    IF \E i \in 1..Len(LowerLetters) : LowerLetters[i] = c
    THEN UpperLetters[CHOOSE i \in 1..Len(LowerLetters) : LowerLetters[i] = c]
    ELSE c

toLowerCase(s) == [i \in 1..Len(s) |-> toLowerChar(s[i])]

endsWith(s, suffix) ==
    /\ Len(s) >= Len(suffix)
    /\ SubSeq(s, Len(s) - Len(suffix) + 1, Len(s)) = suffix

DotPsd == <<".", "p", "s", "d">>

\* the extension compared without lower-casing the name first
hasPsdExtensionCaseSensitive(name) == endsWith(name, DotPsd)

\* App.tsx:115, the test whose failure throws 'Please select a .psd file.'
hasPsdExtension(name) == endsWith(toLowerCase(name), DotPsd)

\* /\.psd$/i : the i flag compares canonicalised (upper-cased) characters;
\* "." is escaped and matches itself only; $ anchors at the end of the input.
matchesPsdRegex(s) ==
    /\ Len(s) >= 4
    /\ s[Len(s) - 3] = "."
    /\ toUpperChar(s[Len(s) - 2]) = "P"
    /\ toUpperChar(s[Len(s) - 1]) = "S"
    /\ toUpperChar(s[Len(s)]) = "D"

\* the regular expression without its i flag
stripPsdCaseSensitive(s) ==
    IF endsWith(s, DotPsd) THEN SubSeq(s, 1, Len(s) - 4) ELSE s

\* App.tsx:176, parsed.fileName.replace(/\.psd$/i, '')
stripPsd(s) == IF matchesPsdRegex(s) THEN SubSeq(s, 1, Len(s) - 4) ELSE s

Digits == <<"0", "1", "2", "3", "4", "5", "6", "7", "8", "9">>

RECURSIVE numberToString(_)
numberToString(n) ==
    IF n < 10 THEN <<Digits[n + 1]>>
    ELSE numberToString(n \div 10) \o <<Digits[(n % 10) + 1]>>

----------------------------------------------------------------------------
(* Export arithmetic.  scale is in quarters, so width * scale is the       *)
(* rational (width * scaleQ) / 4; every such product is exact in a double. *)

\* Math.floor in place of Math.round
mathFloorQuarters(q) == q \div 4

\* Math.round(q / 4): the nearest integer, a tie going towards +Infinity.
mathRoundQuarters(q) == (q + 2) \div 4

mathMax(a, b) == IF a >= b THEN a ELSE b

\* App.tsx:140-141
exportSize(size, scaleQ) == mathMax(1, mathRoundQuarters(size * scaleQ))

\* App.tsx:176-177
downloadName(fileName, exportWidth, exportHeight, fmt) ==
    stripPsd(fileName) \o <<"-">> \o numberToString(exportWidth) \o <<"x">>
        \o numberToString(exportHeight) \o <<".">> \o fmt

----------------------------------------------------------------------------
(* Initial state: the component is mounted and the mount effect            *)
(* (App.tsx:37-76) has run, so a worker exists iff canUseWorker.           *)

Init ==
    /\ isParsing = FALSE
    /\ error = NULL
    /\ parsed = NullParsed
    /\ format = PNG
    /\ jpgQuality = QualityDefault
    /\ jpgBackground = BackgroundDefault
    /\ scale = ScaleDefault
    /\ canUseWorker \in BOOLEAN
    /\ workerOffscreen \in (IF canUseWorker THEN BOOLEAN ELSE {FALSE})
    /\ calls = {}
    /\ inbox = <<>>
    /\ outbox = <<>>
    /\ exports = {}
    /\ downloads = <<>>
    /\ nextBitmap = 1
    /\ closed = {}
    /\ delivered = {}
    /\ handled = {}
    /\ replyLog = <<>>
    /\ nextReq = 1
    /\ nextExport = 1
    /\ workerErrors = 0
    /\ history = [lastName |-> <<>>, lastWidth |-> 0, lastHeight |-> 0, allOk |-> TRUE]
    /\ last = <<"init", "">>

----------------------------------------------------------------------------
(* Parse dispatch, App.tsx *)

\* the updater without prev?.bitmap.close()
closePrevNever(prev) == closed

\* setParsed((prev) => { prev?.bitmap.close(); return {...} }), App.tsx:55-64
\* and 104-107: the bitmaps closed once the new composite is installed.
closePrev(prev) ==
    IF prev.bitmap # NoBitmap THEN closed \cup {prev.bitmap} ELSE closed

\* the catch block without setIsParsing(false)
catchErrorKeepsParsing(message) ==
    /\ isParsing' = isParsing
    /\ error' = message

\* The catch block of handleFile, App.tsx:127-130 (every thrown value here
\* is an Error, so the text is e.message).
catchError(message) ==
    /\ isParsing' = FALSE
    /\ error' = message

noteSelection(file) ==
    history' = [lastName |-> file.name, lastWidth |-> file.width,
                lastHeight |-> file.height,
                allOk |-> history.allOk /\ hasPsdExtension(file.name)]

noteFailure == history' = [history EXCEPT !.allOk = FALSE]

\* handleFile up to its first await, App.tsx:110-124.
handleFile(file, how) ==
    /\ nextReq <= MaxSelections
    /\ nextReq' = nextReq + 1
    /\ noteSelection(file)
    /\ IF ~hasPsdExtension(file.name)
       THEN /\ catchError(MsgBadExtension)
            /\ calls' = calls
            /\ last' = <<how, "rejected">>
       ELSE /\ error' = NULL
            /\ isParsing' = TRUE
            /\ calls' = calls \cup
                 {[req |-> nextReq, file |-> file,
                   pc |-> IF canUseWorker THEN "arrayBuffer" ELSE "mainThread"]}
            /\ last' = <<how, "started">>
    /\ UNCHANGED <<parsed, optVars, envVars, workerVars, outbox, exportVars,
                   bitmapVars, workerErrors>>

\* <input type="file"> onChange, App.tsx:237-241, reached through the
\* buttons of lines 248 and 266, which are disabled while isParsing.
onChange ==
    /\ ~isParsing
    /\ \E file \in Files : handleFile(file, "onChange")

\* onDrop of the drop zone, App.tsx:224-230.
onDrop == \E file \in Files : handleFile(file, "onDrop")

\* handleFile resumed after `await file.arrayBuffer()`, App.tsx:121-122.
arrayBufferDone ==
    \E c \in calls :
        /\ c.pc = "arrayBuffer"
        /\ calls' = calls \ {c}
        /\ IF c.file.content = "unreadable"
           THEN /\ catchError(MsgNotReadable)
                /\ noteFailure
                /\ inbox' = inbox
                /\ last' = <<"handleFile", "readFailed">>
           ELSE /\ inbox' = Append(inbox, [type |-> "parse", fileName |-> c.file.name,
                                          buffer |-> c.file, req |-> c.req])
                /\ UNCHANGED <<isParsing, error, history>>
                /\ last' = <<"handleFile", "posted">>
        /\ UNCHANGED <<parsed, optVars, envVars, handled, replyLog, outbox,
                       exportVars, bitmapVars, nextReq, workerErrors>>

----------------------------------------------------------------------------
(* The composite worker, smoke-e2e.mjs:155-189 *)

errorReply(message) ==
    [type |-> "error", fileName |-> <<>>, width |-> 0, height |-> 0,
     bitmap |-> NoBitmap, message |-> message]

parsedReply(fileName, width, height, bitmap) ==
    [type |-> "parsed", fileName |-> fileName, width |-> width,
     height |-> height, bitmap |-> bitmap, message |-> ""]

\* the missing-composite branch without its `return`: the error is posted,
\* transferToImageBitmap then throws and the catch block posts another
selfOnmessageRepliesTwice(msg, offscreen, bitmap) ==
    IF msg.type # "parse" THEN <<>>
    ELSE IF ~offscreen THEN <<errorReply(MsgNoOffscreen)>>
    ELSE IF msg.buffer.content = "malformed"
         THEN <<errorReply(msg.buffer.errMsg)>>
    ELSE IF msg.buffer.content = "nocanvas"
         THEN <<errorReply(MsgNoCompositeWorker), errorReply(MsgFailed)>>
    ELSE <<parsedReply(msg.fileName, msg.buffer.width, msg.buffer.height, bitmap)>>

\* the missing-composite branch returning without posting
selfOnmessageRepliesSilent(msg, offscreen, bitmap) ==
    IF msg.type # "parse" THEN <<>>
    ELSE IF ~offscreen THEN <<errorReply(MsgNoOffscreen)>>
    ELSE IF msg.buffer.content = "malformed"
         THEN <<errorReply(msg.buffer.errMsg)>>
    ELSE IF msg.buffer.content = "nocanvas" THEN <<>>
    ELSE <<parsedReply(msg.fileName, msg.buffer.width, msg.buffer.height, bitmap)>>

\* The messages self.onmessage posts for one request, in order.  bitmap is
\* the identity transferToImageBitmap() would return.
selfOnmessageReplies(msg, offscreen, bitmap) ==
    IF msg.type # "parse" THEN <<>>
    ELSE IF ~offscreen THEN <<errorReply(MsgNoOffscreen)>>
    ELSE IF msg.buffer.content = "malformed"
         THEN <<errorReply(msg.buffer.errMsg)>>
    ELSE IF msg.buffer.content = "nocanvas"
         THEN <<errorReply(MsgNoCompositeWorker)>>
    ELSE <<parsedReply(msg.fileName, msg.buffer.width, msg.buffer.height, bitmap)>>

selfOnmessage ==
    /\ inbox # <<>>
    /\ LET msg == Head(inbox)
           replies == selfOnmessageReplies(msg, workerOffscreen, nextBitmap)
           made == \E i \in 1..Len(replies) : replies[i].bitmap # NoBitmap
       IN /\ inbox' = Tail(inbox)
          /\ outbox' = outbox \o replies
          /\ replyLog' = replyLog \o
                [i \in 1..Len(replies) |-> [req |-> msg.req, reply |-> replies[i]]]
          /\ handled' = handled \cup {msg.req}
          /\ nextBitmap' = IF made THEN nextBitmap + 1 ELSE nextBitmap
          /\ last' = <<"self.onmessage", IF made THEN "parsed" ELSE "error">>
    /\ UNCHANGED <<appVars, optVars, envVars, calls, exportVars, closed,
                   delivered, nextReq, workerErrors, history>>

----------------------------------------------------------------------------
(* Worker replies and the main-thread decoder, App.tsx *)

\* worker.onmessage, App.tsx:45-65
workerOnmessage ==
    /\ outbox # <<>>
    /\ LET msg == Head(outbox)
       IN /\ outbox' = Tail(outbox)
          /\ IF msg.type = "error"
             THEN /\ isParsing' = FALSE
                  /\ error' = IF msg.message # "" THEN msg.message ELSE MsgFailed
                  /\ noteFailure
                  /\ UNCHANGED <<parsed, closed, delivered>>
                  /\ last' = <<"worker.onmessage", "error">>
             ELSE /\ isParsing' = FALSE
                  /\ error' = NULL
                  /\ closed' = closePrev(parsed)
                  /\ parsed' = [fileName |-> msg.fileName, width |-> msg.width,
                                height |-> msg.height, bitmap |-> msg.bitmap,
                                usedWorker |-> TRUE]
                  /\ delivered' = delivered \cup {msg.bitmap}
                  /\ UNCHANGED history
                  /\ last' = <<"worker.onmessage", "parsed">>
    /\ UNCHANGED <<optVars, envVars, calls, workerVars, exportVars, nextBitmap,
                   nextReq, workerErrors>>

\* worker.onerror, App.tsx:67-70
workerOnerror ==
    /\ canUseWorker
    /\ workerErrors < MaxWorkerErrors
    /\ workerErrors' = workerErrors + 1
    /\ isParsing' = FALSE
    /\ error' = MsgWorkerFailed
    /\ noteFailure
    /\ last' = <<"worker.onerror", "error">>
    /\ UNCHANGED <<parsed, optVars, envVars, calls, workerVars, outbox,
                   exportVars, bitmapVars, nextReq>>

\* parseInMainThread resumed after the awaits of App.tsx:98-99: readPsd, the
\* composite test of line 101 and the createImageBitmap call of line 103.
\* A throw is caught by handleFile (App.tsx:127-130).
parseInMainThread ==
    \E c \in calls :
        /\ c.pc = "mainThread"
        /\ IF c.file.content = "ok"
           THEN /\ calls' = (calls \ {c}) \cup {[c EXCEPT !.pc = "createImageBitmap"]}
                /\ UNCHANGED <<isParsing, error, history>>
                /\ last' = <<"parseInMainThread", "decoded">>
           ELSE /\ calls' = calls \ {c}
                /\ catchError(CASE c.file.content = "unreadable" -> MsgNotReadable
                                [] c.file.content = "malformed" -> c.file.errMsg
                                [] OTHER -> MsgNoCompositeMain)
                /\ noteFailure
                /\ last' = <<"parseInMainThread", "error">>
        /\ UNCHANGED <<parsed, optVars, envVars, workerVars, outbox, exportVars,
                       bitmapVars, nextReq, workerErrors>>

\* parseInMainThread resumed after `await createImageBitmap`, App.tsx:103-107,
\* then handleFile's setIsParsing(false), line 125; a rejection goes to the
\* catch block.
createImageBitmapDone ==
    \E c \in calls, ok \in BOOLEAN :
        /\ c.pc = "createImageBitmap"
        /\ calls' = calls \ {c}
        /\ IF ok
           THEN /\ closed' = closePrev(parsed)
                /\ parsed' = [fileName |-> c.file.name, width |-> c.file.width,
                              height |-> c.file.height, bitmap |-> nextBitmap,
                              usedWorker |-> FALSE]
                /\ delivered' = delivered \cup {nextBitmap}
                /\ nextBitmap' = nextBitmap + 1
                /\ isParsing' = FALSE
                /\ UNCHANGED <<error, history>>
                /\ last' = <<"parseInMainThread", "parsed">>
           ELSE /\ catchError(MsgBitmapFailed)
                /\ noteFailure
                /\ UNCHANGED <<parsed, bitmapVars>>
                /\ last' = <<"parseInMainThread", "error">>
        /\ UNCHANGED <<optVars, envVars, workerVars, outbox, exportVars,
                       nextReq, workerErrors>>

----------------------------------------------------------------------------
(* Export options, App.tsx:284-346.  Every control is disabled while       *)
(* isParsing; the JPEG controls are rendered only when format is 'jpg'.    *)

setOption(fmt, q, bg, sc) ==
    /\ ~isParsing
    /\ format' = fmt
    /\ jpgQuality' = q
    /\ jpgBackground' = bg
    /\ scale' = sc
    /\ last' = <<"setOption", "set">>
    /\ UNCHANGED <<appVars, envVars, calls, workerVars, outbox, exportVars,
                   bitmapVars, nextReq, workerErrors, history>>

setFormat == \E f \in OutputFormat \ {format} :
    setOption(f, jpgQuality, jpgBackground, scale)

setScale == \E k \in ScaleChoices \ {scale} :
    setOption(format, jpgQuality, jpgBackground, k)

setJpgQuality == \E q \in QualityChoices \ {jpgQuality} :
    format = JPG /\ setOption(format, q, jpgBackground, scale)

setJpgBackground == \E bg \in BackgroundChoices \ {jpgBackground} :
    format = JPG /\ setOption(format, jpgQuality, bg, scale)

----------------------------------------------------------------------------
(* Export pipeline, App.tsx:137-187 *)

\* the early return without setError
exportFailedSilently(message) ==
    /\ error' = error
    /\ downloads' = downloads

\* setError(...); return, App.tsx:147-150 and 171-174: nothing is downloaded.
exportFailed(message) ==
    /\ error' = message
    /\ downloads' = downloads

\* onDownload up to the await of toBlob, App.tsx:137-169.  ctxOk is whether
\* canvas.getContext('2d') returned a context.
onDownload ==
    /\ nextExport <= MaxExports
    /\ nextExport' = nextExport + 1
    /\ IF parsed = NullParsed
       THEN /\ UNCHANGED <<error, exports, downloads>>
            /\ last' = <<"onDownload", "noComposite">>
       ELSE \E ctxOk \in BOOLEAN :
            IF ~ctxOk
            THEN /\ exportFailed(MsgNoContext)
                 /\ exports' = exports
                 /\ last' = <<"onDownload", "noContext">>
            ELSE /\ exports' = exports \cup
                       {[id |-> nextExport,
                         fileName |-> parsed.fileName,
                         width |-> parsed.width, height |-> parsed.height,
                         scale |-> scale, format |-> format,
                         exportWidth |-> exportSize(parsed.width, scale),
                         exportHeight |-> exportSize(parsed.height, scale)]}
                 /\ UNCHANGED <<error, downloads>>
                 /\ last' = <<"onDownload", "toBlob">>
    /\ UNCHANGED <<isParsing, parsed, optVars, envVars, calls, workerVars,
                   outbox, bitmapVars, nextReq, workerErrors, history>>

\* the toBlob callback and the rest of onDownload, App.tsx:163-186.
toBlobDone ==
    \E e \in exports, blobOk \in BOOLEAN :
        /\ exports' = exports \ {e}
        /\ IF ~blobOk
           THEN /\ exportFailed(MsgNoBlob)
                /\ last' = <<"onDownload", "noBlob">>
           ELSE /\ downloads' = Append(downloads,
                      [export |-> e,
                       name |-> downloadName(e.fileName, e.exportWidth,
                                             e.exportHeight, e.format)])
                /\ error' = error
                /\ last' = <<"onDownload", "downloaded">>
        /\ UNCHANGED <<isParsing, parsed, optVars, envVars, calls, workerVars,
                       outbox, nextExport, bitmapVars, nextReq, workerErrors,
                       history>>

----------------------------------------------------------------------------
(* The whole program, and the two halves the properties are checked on.    *)
(* The parse dispatcher never reads the export options or the export       *)
(* state; the export pipeline reads the composite and the options and      *)
(* writes only the error text and its own state.                           *)

DecodeNext ==
    \/ onChange
    \/ onDrop
    \/ arrayBufferDone
    \/ selfOnmessage
    \/ workerOnmessage
    \/ workerOnerror
    \/ parseInMainThread
    \/ createImageBitmapDone

ExportNext ==
    \/ setFormat
    \/ setScale
    \/ setJpgQuality
    \/ setJpgBackground
    \/ onDownload
    \/ toBlobDone

Next == DecodeNext \/ ExportNext

Spec == Init /\ [][Next]_vars

\* The parse dispatcher alone, the export options at their defaults.
DecodeSpec == Init /\ [][DecodeNext]_vars

\* The parse dispatcher where every pending promise settles, the worker
\* handles every message it was sent and every reply is delivered.
Fairness ==
    /\ WF_vars(arrayBufferDone)
    /\ WF_vars(selfOnmessage)
    /\ WF_vars(workerOnmessage)
    /\ WF_vars(parseInMainThread)
    /\ WF_vars(createImageBitmapDone)

LiveSpec == DecodeSpec /\ Fairness

\* The state DecodeSpec is in once the first selected file, `file`, has been
\* decoded by the worker and installed.
afterFirstDecode(file) ==
    /\ isParsing = FALSE
    /\ error = NULL
    /\ parsed = [fileName |-> file.name, width |-> file.width,
                 height |-> file.height, bitmap |-> 1, usedWorker |-> TRUE]
    /\ format = PNG
    /\ jpgQuality = QualityDefault
    /\ jpgBackground = BackgroundDefault
    /\ scale = ScaleDefault
    /\ canUseWorker = TRUE
    /\ workerOffscreen = TRUE
    /\ calls = {}
    /\ inbox = <<>>
    /\ outbox = <<>>
    /\ exports = {}
    /\ downloads = <<>>
    /\ nextBitmap = 2
    /\ closed = {}
    /\ delivered = {1}
    /\ handled = {1}
    /\ replyLog = <<[req |-> 1,
                     reply |-> parsedReply(file.name, file.width, file.height, 1)]>>
    /\ nextReq = 2
    /\ nextExport = 1
    /\ workerErrors = 0
    /\ history = [lastName |-> file.name, lastWidth |-> file.width,
                  lastHeight |-> file.height, allOk |-> TRUE]
    /\ last = <<"worker.onmessage", "parsed">>

Decodable == {f \in Files : hasPsdExtension(f.name) /\ f.content = "ok"}

\* The export pipeline, started with no composite or with a decoded one.
InitExport ==
    \/ Init /\ canUseWorker /\ workerOffscreen
    \/ \E file \in Decodable : afterFirstDecode(file)

ExportSpec == InitExport /\ [][ExportNext]_vars

----------------------------------------------------------------------------
(* Properties of the parse dispatcher (DecodeSpec, LiveSpec) *)

\* Decodes started by handleFile that have no parsed/error outcome yet.
Pending == Cardinality(calls) + Len(inbox) + Len(outbox)

Live == delivered \ closed

\* C1: at most one delivered bitmap is unreleased, and it is exactly the
\* bitmap of the current composite: every superseded bitmap has been closed
\* and the current one has not.
OneLiveBitmap ==
    /\ Cardinality(Live) <= 1
    /\ Live = (IF parsed = NullParsed THEN {} ELSE {parsed.bitmap})
    /\ parsed = NullParsed <=> parsed.bitmap = NoBitmap

\* a composite was superseded by a later one
SupersededOnce == closed # {} /\ parsed # NullParsed /\ Pending = 0

\* C2: at most one decode is in flight at any time.
AtMostOneDecodeInFlight == Pending <= 1

\* C3: when every selection so far was accepted and decoded successfully
\* and no decode is pending, the composite shown is that of the file
\* selected last.
LastDecodeWins ==
    (Pending = 0 /\ nextReq > 1 /\ history.allOk) =>
        /\ parsed.fileName = history.lastName
        /\ parsed.width = history.lastWidth
        /\ parsed.height = history.lastHeight
        /\ parsed.bitmap \in Live

RepliesTo(req) == {i \in 1..Len(replyLog) : replyLog[i].req = req}

WellFormedReply(r) ==
    \/ /\ r.type = "parsed"
       /\ r.bitmap # NoBitmap
       /\ r.width > 0
       /\ r.height > 0
    \/ /\ r.type = "error"
       /\ r.bitmap = NoBitmap

\* C4: the worker posts exactly one reply for every 'parse' message it has
\* handled and none for a message it has not; a reply is 'parsed' with
\* dimensions and a bitmap or 'error' with no bitmap.
OneReplyPerParse ==
    /\ \A req \in 1..MaxSelections :
          Cardinality(RepliesTo(req)) = (IF req \in handled THEN 1 ELSE 0)
    /\ \A i \in 1..Len(replyLog) : WellFormedReply(replyLog[i].reply)
    /\ \A i \in 1..Len(outbox) : WellFormedReply(outbox[i])

\* the worker has answered one request with 'parsed' and one with 'error'
BothKindsOfReply ==
    /\ \E i \in 1..Len(replyLog) : replyLog[i].reply.type = "parsed"
    /\ \E i \in 1..Len(replyLog) : replyLog[i].reply.type = "error"
    /\ Cardinality(handled) = 2

\* a name whose last four characters are ".psd" in any letter case
EndsInDotPsd(name) ==
    /\ Len(name) >= 4
    /\ name[Len(name) - 3] = "."
    /\ name[Len(name) - 2] \in {"p", "P"}
    /\ name[Len(name) - 1] \in {"s", "S"}
    /\ name[Len(name)] \in {"d", "D"}

\* C5: a handleFile call (the step that consumes a request number) on a name
\* without the .psd extension starts no decode, sets the error text to
\* 'Please select a .psd file.', leaves isParsing false and the composite
\* and its bitmap as they were; a name ending in .psd in any letter case
\* starts a decode.
RejectsOnlyNonPsd ==
    [][ nextReq' = nextReq + 1 =>
          IF EndsInDotPsd(history'.lastName)
          THEN /\ Cardinality(calls') = Cardinality(calls) + 1
               /\ isParsing'
               /\ error' = NULL
          ELSE /\ calls' = calls
               /\ inbox' = inbox
               /\ error' = MsgBadExtension
               /\ isParsing' = FALSE
               /\ parsed' = parsed
               /\ closed' = closed ]_vars

\* a file without the extension was dropped while a composite was shown
RejectedWithComposite ==
    /\ last = <<"onDrop", "rejected">>
    /\ parsed # NullParsed
    /\ ~EndsInDotPsd(history.lastName)

DecodeErrorOutcomes ==
    { <<"worker.onmessage", "error">>, <<"worker.onerror", "error">>,
      <<"parseInMainThread", "error">>, <<"handleFile", "readFailed">> }

\* C6: a decode that ends in an error installs and delivers no bitmap,
\* leaves the composite and its bitmap unchanged and unclosed, makes the
\* error text non-null and isParsing false; the worker produces no bitmap
\* when it replies 'error'.
DecodeErrorKeepsComposite ==
    [][ /\ last' \in DecodeErrorOutcomes =>
            /\ parsed' = parsed
            /\ closed' = closed
            /\ delivered' = delivered
            /\ nextBitmap' = nextBitmap
            /\ error' # NULL
            /\ isParsing' = FALSE
        /\ last' = <<"self.onmessage", "error">> =>
            /\ nextBitmap' = nextBitmap
            /\ Head(inbox).buffer.content # "ok" \/ ~workerOffscreen ]_vars

\* the missing-composite error arrived while an earlier composite was shown
NoCompositeAfterComposite ==
    /\ last = <<"worker.onmessage", "error">>
    /\ error = MsgNoCompositeWorker
    /\ parsed # NullParsed
    /\ parsed.bitmap \notin closed

\* C10: isParsing is false whenever no decode is pending, and whenever it is
\* true it eventually becomes false.
ParsingNeverStuck ==
    /\ [](Pending = 0 => ~isParsing)
    /\ (isParsing ~> ~isParsing)

\* a decode has been started and has finished
DecodeFinished == nextReq > 1 /\ Pending = 0 /\ ~isParsing /\ handled # {}

----------------------------------------------------------------------------
(* Properties of the export pipeline (ExportSpec).  An export is described *)
(* by what onDownload read when it was invoked: the composite, the scale   *)
(* and the format selected at that moment.                                 *)

Downloaded == {downloads[i].export : i \in 1..Len(downloads)}

AllExports == exports \cup Downloaded

\* r is the integer nearest to (size * scaleQ) / 4, a half going up
NearestHalfUp(size, scaleQ, r) ==
    /\ 2 * (2 * r - 1) <= size * scaleQ
    /\ size * scaleQ < 2 * (2 * r + 1)

TargetSize(size, scaleQ, out) ==
    \E r \in 0..(2 * size) :
        /\ NearestHalfUp(size, scaleQ, r)
        /\ out = (IF r >= 1 THEN r ELSE 1)

\* C7: the target size of an export is max(1, round(width x scale)) by
\* max(1, round(height x scale)), halves rounded up, for every selectable
\* scale; scale 1 keeps the decoded size, scale 0.5 on 100x100 gives 50x50,
\* and no axis is 0.
ExportSizeRule ==
    \A e \in AllExports :
        /\ e.scale \in 1..8
        /\ e.width >= 1 /\ e.height >= 1
        /\ TargetSize(e.width, e.scale, e.exportWidth)
        /\ TargetSize(e.height, e.scale, e.exportHeight)
        /\ e.exportWidth >= 1 /\ e.exportHeight >= 1
        /\ e.scale = 4 => e.exportWidth = e.width /\ e.exportHeight = e.height
        /\ (e.scale = 2 /\ e.width = 100 /\ e.height = 100) =>
               e.exportWidth = 50 /\ e.exportHeight = 50

\* 3x1 exported at scale 0.5: 1.5 and 0.5 are halves and go up to 2 and 1
HalvesExported ==
    \E e \in AllExports :
        /\ e.width = 3 /\ e.height = 1 /\ e.scale = 2
        /\ e.exportWidth = 2 /\ e.exportHeight = 1

ExportFailures == { <<"onDownload", "noContext">>, <<"onDownload", "noBlob">> }

\* C8: an export that gets no 2D context or a null blob sets a non-null
\* error text and downloads nothing; onDownload without a composite does
\* nothing; in each case the composite, its bitmap and the export options
\* stay as they were.
ExportFailureIsQuiet ==
    [][ /\ last' \in ExportFailures =>
            /\ error' # NULL
            /\ downloads' = downloads
            /\ parsed' = parsed
            /\ closed' = closed
            /\ optVars' = optVars
        /\ last' = <<"onDownload", "noComposite">> =>
            /\ parsed = NullParsed
            /\ <<isParsing, error, parsed, closed>>' = <<isParsing, error, parsed, closed>>
            /\ <<exports, downloads>>' = <<exports, downloads>>
            /\ optVars' = optVars ]_vars

\* toBlob gave null for an export of a displayed composite with non-default
\* options
NullBlobReported ==
    /\ last = <<"onDownload", "noBlob">>
    /\ error = MsgNoBlob
    /\ parsed # NullParsed
    /\ format = JPG
    /\ downloads = <<>>

BaseName(fileName) ==
    IF EndsInDotPsd(fileName) THEN SubSeq(fileName, 1, Len(fileName) - 4)
    ELSE fileName

\* C9: every successful export makes exactly one download, named
\* <base>-<W>x<H>.<ext>: base is the decoded file's name without a trailing
\* .psd (any letter case), W and H the export dimensions, ext the format
\* selected when the export was requested; with the default format the name
\* ends in .png.
DownloadNaming ==
    /\ \A i \in 1..Len(downloads) :
          LET e == downloads[i].export
          IN /\ downloads[i].name =
                   BaseName(e.fileName) \o <<"-">> \o numberToString(e.exportWidth)
                     \o <<"x">> \o numberToString(e.exportHeight) \o <<".">> \o e.format
             /\ e.format \in {PNG, JPG}
             /\ e.format = PNG => endsWith(downloads[i].name, <<".", "p", "n", "g">>)
             /\ e \notin exports
             /\ \A j \in 1..Len(downloads) :
                    downloads[j].export.id = e.id => j = i
    /\ Len(downloads) + Cardinality(exports) <= nextExport - 1

\* B.PSD (3x1) exported as JPEG at scale 0.5
UpperCaseNameDownloaded ==
    \E i \in 1..Len(downloads) :
        downloads[i].name = <<"B", "-", "2", "x", "1", ".", "j", "p", "g">>

====
